---- MODULE Spec2Model ----
(***************************************************************************)
(* basic-http-server: the request-resolution and response-construction     *)
(* pipeline of src/src/main.rs and the developer extensions of             *)
(* src/src/ext.rs.                                                         *)
(*                                                                         *)
(* Strings (URI paths, file names, file contents) are sequences of bytes,  *)
(* 0..255, so that percent-decoding, UTF-8 validation and the path         *)
(* operations are computed as the code computes them.                      *)
(***************************************************************************)
EXTENDS Integers, Sequences, FiniteSets, TLC

\* The bytes the model writes strings with.
Ch ==
    [slash |-> 47, dot |-> 46, pct |-> 37, star |-> 42, qmark |-> 63,
     space |-> 32, two |-> 50, five |-> 53, E |-> 69, F |-> 70,
     d |-> 100, e |-> 101, h |-> 104, i |-> 105, l |-> 108, m |-> 109,
     n |-> 110, q |-> 113, s |-> 115, t |-> 116, w |-> 119, x |-> 120,
     z |-> 122, xC3 |-> 195, xA9 |-> 169, xFF |-> 255]

----------------------------------------------------------------------------
(* str and byte-slice operations of the Rust standard library *)

\* Option<T>: none, or some value (v is <<>> when none)
None == [some |-> FALSE, v |-> <<>>]
Some(v) == [some |-> TRUE, v |-> v]

\* str::starts_with(char) / str::ends_with(char)
starts_with(s, c) == Len(s) > 0 /\ s[1] = c
ends_with(s, c) == Len(s) > 0 /\ s[Len(s)] = c

\* str::find(char): the index of the first c in s, 0 when there is none
find(s, c) ==
    IF \E k \in 1..Len(s) : s[k] = c
    THEN CHOOSE k \in 1..Len(s) : s[k] = c /\ \A j \in 1..(k - 1) : s[j] # c
    ELSE 0

\* the index of the last c in s, 0 when there is none
rfind(s, c) ==
    IF \E k \in 1..Len(s) : s[k] = c
    THEN CHOOSE k \in 1..Len(s) : s[k] = c /\ \A j \in (k + 1)..Len(s) : s[j] # c
    ELSE 0

\* str::split(c): the pieces of s between the occurrences of c, empty ones kept
RECURSIVE split(_, _)
split_at(s, c, k) ==
    IF k = 0 THEN <<s>>
    ELSE <<SubSeq(s, 1, k - 1)>> \o split(SubSeq(s, k + 1, Len(s)), c)

split(s, c) == split_at(s, c, find(s, c))

\* str::rsplit(c).next(): the piece after the last c (all of s when there is none)
rsplit_next(s, c) == SubSeq(s, rfind(s, c) + 1, Len(s))

\* the pieces joined with c between them
RECURSIVE join(_, _)
join(parts, c) ==
    IF Len(parts) = 0 THEN <<>>
    ELSE IF Len(parts) = 1 THEN parts[1]
    ELSE parts[1] \o <<c>> \o join(Tail(parts), c)

\* byte-wise lexicographic order of two strings (Ord for [u8])
RECURSIVE bytes_lt(_, _)
bytes_lt(a, b) ==
    IF Len(b) = 0 THEN FALSE
    ELSE IF Len(a) = 0 THEN TRUE
    ELSE IF a[1] # b[1] THEN a[1] < b[1]
    ELSE bytes_lt(Tail(a), Tail(b))

\* std::str::from_utf8: whether the bytes from index k on are well-formed UTF-8
RECURSIVE utf8_valid_from(_, _)
utf8_valid_from(b, k) ==
    IF k > Len(b) THEN TRUE
    ELSE LET c == b[k]
             cont(j) == j <= Len(b) /\ b[j] >= 128 /\ b[j] <= 191
         IN  IF c < 128 THEN utf8_valid_from(b, k + 1)
             ELSE IF c >= 194 /\ c <= 223
                  THEN cont(k + 1) /\ utf8_valid_from(b, k + 2)
             ELSE IF c >= 224 /\ c <= 239
                  THEN /\ cont(k + 1) /\ cont(k + 2)
                       /\ (c = 224 => b[k + 1] >= 160)
                       /\ (c = 237 => b[k + 1] <= 159)
                       /\ utf8_valid_from(b, k + 3)
             ELSE IF c >= 240 /\ c <= 244
                  THEN /\ cont(k + 1) /\ cont(k + 2) /\ cont(k + 3)
                       /\ (c = 240 => b[k + 1] >= 144)
                       /\ (c = 244 => b[k + 1] <= 143)
                       /\ utf8_valid_from(b, k + 4)
             ELSE FALSE

utf8_valid(b) == utf8_valid_from(b, 1)

----------------------------------------------------------------------------
(* the percent_encoding crate, as main.rs and ext.rs use it *)

\* the value of an ASCII hex digit, -1 for any other byte
hex_val(c) ==
    IF c >= 48 /\ c <= 57 THEN c - 48
    ELSE IF c >= 65 /\ c <= 70 THEN c - 55
    ELSE IF c >= 97 /\ c <= 102 THEN c - 87
    ELSE 0 - 1

\* the upper-case ASCII hex digit of a value 0..15
hex_digit(v) == IF v < 10 THEN 48 + v ELSE 55 + v

\* percent_decode_str(s): every `%` followed by two hex digits becomes the
\* byte they spell; every other byte, a lone `%` included, is kept
RECURSIVE percent_decode_str(_)
percent_decode_str(s) ==
    IF Len(s) = 0 THEN <<>>
    ELSE IF /\ s[1] = Ch.pct
            /\ Len(s) >= 3
            /\ hex_val(s[2]) >= 0
            /\ hex_val(s[3]) >= 0
         THEN <<16 * hex_val(s[2]) + hex_val(s[3])>>
                  \o percent_decode_str(SubSeq(s, 4, Len(s)))
         ELSE <<s[1]>> \o percent_decode_str(Tail(s))

\* CONTROLS plus the bytes FRAGMENT_SET and PATH_SET add to it
PATH_SET ==
    (0..31) \cup {127}
        \cup {32, 34, 60, 62, 96}
        \cup {35, 63, 123, 125}

\* utf8_percent_encode(s, PATH_SET): a byte of the set, and every non-ASCII
\* byte, becomes `%XX`; every other byte is kept
RECURSIVE utf8_percent_encode(_)
utf8_percent_encode(s) ==
    IF Len(s) = 0 THEN <<>>
    ELSE (IF s[1] >= 128 \/ s[1] \in PATH_SET
          THEN <<Ch.pct, hex_digit(s[1] \div 16), hex_digit(s[1] % 16)>>
          ELSE <<s[1]>>)
             \o utf8_percent_encode(Tail(s))

----------------------------------------------------------------------------
(* std::path on Unix: a path is a string, read component by component *)

Dot == <<Ch.dot>>
DotDot == <<Ch.dot, Ch.dot>>

\* the segments that are components: empty segments and `.` are dropped
RECURSIVE normal_parts(_)
normal_parts(segs) ==
    IF Len(segs) = 0 THEN <<>>
    ELSE (IF Len(segs[1]) = 0 \/ segs[1] = Dot THEN <<>> ELSE <<segs[1]>>)
             \o normal_parts(Tail(segs))

\* Path::components: whether the path has a root, and its names (`..` kept)
components(p) ==
    [rooted |-> starts_with(p, Ch.slash),
     parts |-> normal_parts(split(p, Ch.slash))]

\* PathBuf::push: an absolute argument replaces the path; any other is
\* appended after a separator
push(path, p) ==
    IF starts_with(p, Ch.slash) THEN p
    ELSE IF Len(path) > 0 /\ ~ends_with(path, Ch.slash)
         THEN path \o <<Ch.slash>> \o p
    ELSE path \o p

\* Path::file_name: the last component, unless it is `..`
last_name(parts) ==
    IF Len(parts) = 0 \/ parts[Len(parts)] = DotDot THEN None
    ELSE Some(parts[Len(parts)])

file_name(p) == last_name(components(p).parts)

\* Path::extension: what follows the last `.` of the file name, unless the
\* name has no `.` or only a leading one
rsplit_file_at_dot(name, k) ==
    IF ~name.some \/ k <= 1 THEN None
    ELSE Some(SubSeq(name.v, k + 1, Len(name.v)))

name_extension(name) == rsplit_file_at_dot(name, rfind(name.v, Ch.dot))

extension(p) == name_extension(file_name(p))

\* Path::ends_with(".."): the last component is `..`
last_is_dot_dot(parts) == Len(parts) > 0 /\ parts[Len(parts)] = DotDot

path_ends_with_dot_dot(p) == last_is_dot_dot(components(p).parts)

\* Path::strip_prefix: the path after the components of base, none when the
\* path does not start with them
strip_components(cp, cb) ==
    IF /\ cp.rooted = cb.rooted
       /\ Len(cb.parts) <= Len(cp.parts)
       /\ SubSeq(cp.parts, 1, Len(cb.parts)) = cb.parts
    THEN Some(join(SubSeq(cp.parts, Len(cb.parts) + 1, Len(cp.parts)), Ch.slash))
    ELSE None

strip_prefix(p, base) == strip_components(components(p), components(base))

\* Ord for Path: component by component, each byte-wise
RECURSIVE parts_lt(_, _)
parts_lt(a, b) ==
    IF Len(b) = 0 THEN FALSE
    ELSE IF Len(a) = 0 THEN TRUE
    ELSE IF a[1] # b[1] THEN bytes_lt(a[1], b[1])
    ELSE parts_lt(Tail(a), Tail(b))

path_lt(p, q) == parts_lt(components(p).parts, components(q).parts)

\* Vec::sort of a set of distinct paths
RECURSIVE sort(_)
sort(paths) ==
    IF paths = {} THEN <<>>
    ELSE LET least == CHOOSE p \in paths : \A q \in paths \ {p} : path_lt(p, q)
         IN  <<least>> \o sort(paths \ {least})

----------------------------------------------------------------------------
(* the filesystem the server runs on: directories and files by location,   *)
(* a location being the sequence of names from the filesystem's `/`        *)

\* the file and directory names of the filesystem
Nm ==
    [w |-> <<Ch.w>>, m |-> <<Ch.m>>, d |-> <<Ch.d>>, x |-> <<Ch.x>>,
     s |-> <<Ch.s>>,
     m_md |-> <<Ch.m, Ch.dot, Ch.m, Ch.d>>,
     d_md |-> <<Ch.d, Ch.dot, Ch.m, Ch.d>>,
     x_md |-> <<Ch.x, Ch.dot, Ch.m, Ch.d>>,
     sh |-> <<Ch.s, Ch.h>>,
     x_sh |-> <<Ch.x, Ch.dot, Ch.s, Ch.h>>,
     d_sh |-> <<Ch.d, Ch.dot, Ch.s, Ch.h>>,
     xFF |-> <<Ch.xFF>>,
     index_html |-> <<Ch.i, Ch.n, Ch.d, Ch.e, Ch.x, Ch.dot, Ch.h, Ch.t, Ch.m, Ch.l>>]

\* /            the filesystem's root
\* /s           a file outside the served directory
\* /w           the served directory (Config.root_dir)
\* /w/m         a directory with an index.html
\* /w/d         a directory without one, of two files with UTF-8 names and
\*              one whose name is not UTF-8
\* /w/d.md      a directory whose name ends in .md, with an index.html
\* /w/x         a file
\* /w/m.md      a markdown file, UTF-8 (two bytes spelling one character)
\* /w/x.md      a markdown file whose bytes are not UTF-8
\* /w/x.sh      a file with an extension of TEXT_EXTENSIONS
\* /w/sh        a file without extension, named as one of TEXT_EXTENSIONS
\* /w/d.sh      a directory named with an extension of TEXT_EXTENSIONS
FsDirs ==
    {<<>>, <<Nm.w>>, <<Nm.w, Nm.m>>, <<Nm.w, Nm.d>>, <<Nm.w, Nm.d_md>>,
     <<Nm.w, Nm.d_sh>>}

FsFiles ==
    {[loc |-> <<Nm.s>>, bytes |-> <<Ch.s>>],
     [loc |-> <<Nm.w, Nm.x>>, bytes |-> <<Ch.x, Ch.x>>],
     [loc |-> <<Nm.w, Nm.m, Nm.index_html>>, bytes |-> <<Ch.h, Ch.m>>],
     [loc |-> <<Nm.w, Nm.d, Nm.x>>, bytes |-> <<Ch.d>>],
     [loc |-> <<Nm.w, Nm.d_md, Nm.index_html>>, bytes |-> <<Ch.h, Ch.d>>],
     [loc |-> <<Nm.w, Nm.m_md>>, bytes |-> <<Ch.xC3, Ch.xA9>>],
     [loc |-> <<Nm.w, Nm.x_md>>, bytes |-> <<Ch.xFF>>],
     [loc |-> <<Nm.w, Nm.d, Nm.m>>, bytes |-> <<Ch.m>>],
     [loc |-> <<Nm.w, Nm.d, Nm.xFF>>, bytes |-> <<Ch.z>>],
     [loc |-> <<Nm.w, Nm.x_sh>>, bytes |-> <<Ch.e>>],
     [loc |-> <<Nm.w, Nm.sh>>, bytes |-> <<Ch.e, Ch.e>>]}

FsFileLocs == {f.loc : f \in FsFiles}

\* the bytes of the file at a location
file_bytes(loc) == (CHOOSE f \in FsFiles : f.loc = loc).bytes

\* the names in the directory at a location
dir_names(loc) ==
    {l[Len(l)] : l \in {k \in FsDirs \cup FsFileLocs :
                          Len(k) = Len(loc) + 1 /\ SubSeq(k, 1, Len(loc)) = loc}}

\* the kernel's path lookup: each name is looked up in the directory reached
\* so far, `.` stays, `..` goes to the parent (of `/`: `/` itself), and a
\* trailing `/` asks for a directory. err is "" on success.
lookup_name(prev, name) ==
    IF prev.err # "" THEN prev
    ELSE IF prev.loc \notin FsDirs
         THEN [err |-> "NotADirectory", loc |-> prev.loc]
    ELSE IF name = Dot THEN prev
    ELSE IF name = DotDot
         THEN [err |-> "", loc |-> SubSeq(prev.loc, 1, Len(prev.loc) - 1)]
    ELSE IF Append(prev.loc, name) \in FsDirs \cup FsFileLocs
         THEN [err |-> "", loc |-> Append(prev.loc, name)]
    ELSE [err |-> "NotFound", loc |-> Append(prev.loc, name)]

RECURSIVE lookup_names(_, _)
lookup_names(names, k) ==
    IF k = 0 THEN [err |-> "", loc |-> <<>>]
    ELSE lookup_name(lookup_names(names, k - 1), names[k])

lookup_last(p, last) ==
    IF ~starts_with(p, Ch.slash) THEN [err |-> "NotFound", loc |-> <<>>]
    ELSE IF last.err = "" /\ ends_with(p, Ch.slash) /\ last.loc \notin FsDirs
         THEN [err |-> "NotADirectory", loc |-> last.loc]
    ELSE last

lookup_all(p, names) == lookup_last(p, lookup_names(names, Len(names)))

os_lookup(p) ==
    lookup_all(p, SelectSeq(split(p, Ch.slash), LAMBDA g : Len(g) > 0))

\* a call the server made that the model keeps a log of: a filesystem call
\* on a path, or local_path_for_request on a URI path
Call(call, p) == [call |-> call, path |-> p]

\* Path::is_dir: stat succeeds and finds a directory
found_dir(lk) == lk.err = "" /\ lk.loc \in FsDirs

is_dir(p) == found_dir(os_lookup(p))

----------------------------------------------------------------------------
(* the values that flow through the pipeline *)

\* Config: the served directory. use_extensions is chosen per behaviour.
root_dir == <<Ch.slash, Ch.w>>

\* the body of a response: empty, the lazy stream of an open file, or a
\* page rendered from the template out of a title and a fragment. The
\* fragment is the status text of an error page (title), the rendered
\* markdown source (md) or the links of a directory listing (links).
EmptyBody == [kind |-> "empty", title |-> 0, md |-> <<>>, links |-> <<>>, file |-> <<>>]
StreamBody(p) == [EmptyBody EXCEPT !.kind = "stream", !.file = p]

\* Response: status, the headers the server sets ("" or <<>> or -1 when
\* not set), body
NoResponse ==
    [status |-> 0, allow |-> "", location |-> <<>>, content_type |-> "",
     content_length |-> 0 - 1, body |-> EmptyBody]

\* Error: the variant, and the io::ErrorKind of an Error::Io
NoError == [kind |-> "", io |-> ""]
IoError(k) == [kind |-> "Io", io |-> k]
UriNotUtf8 == [kind |-> "UriNotUtf8", io |-> ""]
UriNotAbsolute == [kind |-> "UriNotAbsolute", io |-> ""]
MarkdownUtf8 == [kind |-> "MarkdownUtf8", io |-> ""]
StripPrefixInDirList == [kind |-> "StripPrefixInDirList", io |-> ""]

\* Result<Response>
Ok(r) == [ok |-> TRUE, resp |-> r, err |-> NoError]
Err(e) == [ok |-> FALSE, resp |-> NoResponse, err |-> e]

\* Result<PathBuf>
OkPath(p) == [ok |-> TRUE, path |-> p, err |-> NoError]
ErrPath(e) == [ok |-> FALSE, path |-> <<>>, err |-> e]

\* the bytes a body is sent as: a page is not spelled out, a stream is the
\* bytes of its file
page_len(body) == 1 + Len(body.md) + Len(body.links)

----------------------------------------------------------------------------
(* src/src/main.rs *)

\* render_html: the template filled with a title and a fragment
render_html(title, md, links) ==
    [kind |-> "html", title |-> title, md |-> md, links |-> links, file |-> <<>>]

\* html_str_to_response_with_headers: the extra headers, Content-Length of
\* the page, Content-Type text/html
html_str_to_response_with_headers(body, status, allow) ==
    Ok([status |-> status, allow |-> allow, location |-> <<>>,
        content_type |-> "text/html", content_length |-> page_len(body),
        body |-> body])

html_str_to_response(body, status) ==
    html_str_to_response_with_headers(body, status, "")

\* make_error_response_from_code_and_headers: the page of the status
make_error_response_from_code_and_headers(status, allow) ==
    html_str_to_response_with_headers(render_html(status, <<>>, <<>>), status, allow)

make_error_response_from_code(status) ==
    make_error_response_from_code_and_headers(status, "")

\* get_unsupported_request_message with HEAD let through like GET
get_unsupported_request_message_head(req) ==
    IF req.method \notin {"GET", "HEAD"}
    THEN [some |-> TRUE, code |-> 405, allow |-> "GET"]
    ELSE [some |-> FALSE, code |-> 0, allow |-> ""]

\* get_unsupported_request_message: 405 with Allow: GET for every method
\* but GET
get_unsupported_request_message(req) ==
    IF req.method # "GET"
    THEN [some |-> TRUE, code |-> 405, allow |-> "GET"]
    ELSE [some |-> FALSE, code |-> 0, allow |-> ""]

\* handle_unsupported_request: the error response of that message
unsupported_response(unsup) ==
    IF unsup.some
    THEN [some |-> TRUE,
          r |-> make_error_response_from_code_and_headers(unsup.code, unsup.allow)]
    ELSE [some |-> FALSE, r |-> Err(NoError)]

handle_unsupported_request(req) ==
    unsupported_response(get_unsupported_request_message(req))

\* local_path_for_request, main.rs 280-281: the path up to the first `?`
trim_query(request_path, q) ==
    SubSeq(request_path, 1, IF q = 0 THEN Len(request_path) ELSE q - 1)

\* local_path_for_request, main.rs 285-301: the decoded path is required to
\* be UTF-8 and to start with `/`, and is pushed onto the root
push_decoded(decoded, root) ==
    IF ~utf8_valid(decoded) THEN ErrPath(UriNotUtf8)
    ELSE IF starts_with(decoded, Ch.slash)
         THEN OkPath(push(root, Tail(decoded)))
    ELSE ErrPath(UriNotAbsolute)

local_path_for_request(uri, root) ==
    push_decoded(
        percent_decode_str(trim_query(uri.path, find(uri.path, Ch.qmark))),
        root)

\* local_path_with_maybe_index with is_dir called before the error of
\* local_path_for_request is looked at
with_maybe_index_stat_first(lp, uri) ==
    [r |-> IF lp.ok /\ is_dir(lp.path)
           THEN OkPath(push(lp.path, Nm.index_html))
           ELSE lp,
     ops |-> <<Call("local_path_for_request", uri.path), Call("stat", lp.path)>>]

\* local_path_with_maybe_index: index.html pushed when the path is a
\* directory; ops are the calls made
with_maybe_index(lp, uri) ==
    IF ~lp.ok
    THEN [r |-> lp, ops |-> <<Call("local_path_for_request", uri.path)>>]
    ELSE [r |-> IF is_dir(lp.path)
                THEN OkPath(push(lp.path, Nm.index_html))
                ELSE lp,
          ops |-> <<Call("local_path_for_request", uri.path),
                    Call("stat", lp.path)>>]

local_path_with_maybe_index(uri, root) ==
    with_maybe_index(local_path_for_request(uri, root), uri)

\* try_dir_redirect, main.rs 204-209: the path, `/`, and the query after `?`
new_loc(uri) ==
    uri.path \o <<Ch.slash>>
        \o (IF uri.query.some THEN <<Ch.qmark>> \o uri.query.v ELSE <<>>)

\* try_dir_redirect, main.rs 198-221: none for a path that fails to resolve
\* (its error) or names no directory, else the 302
redirect_for(lp, req) ==
    IF ~lp.ok
    THEN [some |-> FALSE, r |-> Err(lp.err),
          ops |-> <<Call("local_path_for_request", req.uri.path)>>]
    ELSE [some |-> is_dir(lp.path),
          r |-> IF is_dir(lp.path)
                THEN Ok([NoResponse EXCEPT !.status = 302,
                                           !.location = new_loc(req.uri)])
                ELSE Ok(NoResponse),
          ops |-> <<Call("local_path_for_request", req.uri.path),
                    Call("stat", lp.path)>>]

\* try_dir_redirect: none at once for a path ending in `/`
try_dir_redirect(req, root) ==
    IF ends_with(req.uri.path, Ch.slash)
    THEN [some |-> FALSE, r |-> Ok(NoResponse), ops |-> <<>>]
    ELSE redirect_for(local_path_for_request(req.uri, root), req)

\* file_path_mime: the MIME type mime_guess gives the extension,
\* application/octet-stream when it knows none
mime_of(ext) ==
    IF ext.some /\ ext.v = <<Ch.h, Ch.t, Ch.m, Ch.l>> THEN "text/html"
    ELSE IF ext.some /\ ext.v = <<Ch.m, Ch.d>> THEN "text/markdown"
    ELSE IF ext.some /\ ext.v = <<Ch.s, Ch.h>> THEN "application/x-sh"
    ELSE "application/octet-stream"

file_path_mime(p) == mime_of(extension(p))

\* respond_with_file: open the file and read its size; 200 with the file as
\* a lazy stream, or the I/O error of open. Opening a directory succeeds
\* (O_RDONLY); the error comes when the stream is read.
respond_with_opened(lk, p) ==
    IF lk.err # ""
    THEN [r |-> Err(IoError(lk.err)), ops |-> <<Call("open", p)>>]
    ELSE [r |-> Ok([status |-> 200, allow |-> "", location |-> <<>>,
                    content_type |-> file_path_mime(p),
                    content_length |-> IF lk.loc \in FsFileLocs
                                       THEN Len(file_bytes(lk.loc))
                                       ELSE 0,
                    body |-> StreamBody(p)]),
          ops |-> <<Call("open", p), Call("fstat", p)>>]

respond_with_file(p) == respond_with_opened(os_lookup(p), p)

\* make_internal_server_error_response: the error is logged, the page is 500
make_internal_server_error_response(e) == make_error_response_from_code(500)

\* make_io_error_response without the arm for NotFound
make_io_error_response_all_500(kind) ==
    make_internal_server_error_response(IoError(kind))

\* make_io_error_response: 404 for NotFound, 500 for every other kind
make_io_error_response(kind) ==
    IF kind = "NotFound" THEN make_error_response_from_code(404)
    ELSE make_internal_server_error_response(IoError(kind))

\* make_error_response: an I/O error by its kind, every other error 500
make_error_response(e) ==
    IF e.kind = "Io" THEN make_io_error_response(e.io)
    ELSE make_internal_server_error_response(e)

\* transform_error, main.rs 340-351: the error response made, or when making
\* it failed a plain response (200) that says so
error_response_or_last_ditch(made) ==
    IF made.ok THEN made.resp
    ELSE [NoResponse EXCEPT !.status = 200,
                            !.body = [EmptyBody EXCEPT !.kind = "text"]]

\* transform_error: a response as it is, an error as its error response
transform_error(resp) ==
    IF resp.ok THEN resp.resp
    ELSE error_response_or_last_ditch(make_error_response(resp.err))

----------------------------------------------------------------------------
(* src/src/ext.rs *)

\* the extensions served as text/plain, spelled in bytes
TEXT_EXTENSIONS ==
    {<<99>>,                                                 \* c
     <<99, 99>>,                                             \* cc
     <<99, 112, 112>>,                                       \* cpp
     <<99, 115, 118>>,                                       \* csv
     <<102, 115, 116>>,                                      \* fst
     <<104>>,                                                \* h
     <<106, 97, 118, 97>>,                                   \* java
     <<109, 100>>,                                           \* md
     <<109, 107>>,                                           \* mk
     <<112, 114, 111, 116, 111>>,                            \* proto
     <<112, 121>>,                                           \* py
     <<114, 98>>,                                            \* rb
     <<114, 115>>,                                           \* rs
     <<114, 115, 116>>,                                      \* rst
     <<115, 104>>,                                           \* sh
     <<116, 111, 109, 108>>,                                 \* toml
     <<121, 109, 108>>}                                      \* yml

\* the file names served as text/plain, spelled in bytes
TEXT_FILES ==
    {<<46, 103, 105, 116, 97, 116, 116, 114, 105, 98, 117, 116, 101, 115>>, \* .gitattributes
     <<46, 103, 105, 116, 105, 103, 110, 111, 114, 101>>,    \* .gitignore
     <<46, 109, 97, 105, 108, 109, 97, 112>>,                \* .mailmap
     <<65, 85, 84, 72, 79, 82, 83>>,                         \* AUTHORS
     <<67, 79, 68, 69, 95, 79, 70, 95, 67, 79, 78, 68, 85, 67, 84>>, \* CODE_OF_CONDUCT
     <<67, 79, 78, 84, 82, 73, 66, 85, 84, 73, 78, 71>>,     \* CONTRIBUTING
     <<67, 79, 80, 89, 73, 78, 71>>,                         \* COPYING
     <<67, 79, 80, 89, 82, 73, 71, 72, 84>>,                 \* COPYRIGHT
     <<67, 97, 114, 103, 111, 46, 108, 111, 99, 107>>,       \* Cargo.lock
     <<76, 73, 67, 69, 78, 83, 69>>,                         \* LICENSE
     <<76, 73, 67, 69, 78, 83, 69, 45, 65, 80, 65, 67, 72, 69>>, \* LICENSE-APACHE
     <<76, 73, 67, 69, 78, 83, 69, 45, 77, 73, 84>>,         \* LICENSE-MIT
     <<77, 97, 107, 101, 102, 105, 108, 101>>,               \* Makefile
     <<114, 117, 115, 116, 45, 116, 111, 111, 108, 99, 104, 97, 105, 110>>} \* rust-toolchain

\* md_path_to_html: the file read whole and required to be UTF-8, rendered
\* and wrapped in the template; 200, text/html
md_of_read(lk) ==
    IF lk.err # "" THEN Err(IoError(lk.err))
    ELSE IF lk.loc \in FsDirs THEN Err(IoError("IsADirectory"))
    ELSE IF ~utf8_valid(file_bytes(lk.loc)) THEN Err(MarkdownUtf8)
    ELSE html_str_to_response(render_html(0, file_bytes(lk.loc), <<>>), 200)

md_path_to_html(p) ==
    [r |-> md_of_read(os_lookup(p)), ops |-> <<Call("read", p)>>]

\* maybe_convert_mime_type_to_text: Content-Type becomes text/plain when
\* what follows the last `.` of the last segment of the URI path is in
\* TEXT_EXTENSIONS, or that segment is in TEXT_FILES
convert_for_name(name, resp) ==
    IF rsplit_next(name, Ch.dot) \in TEXT_EXTENSIONS \/ name \in TEXT_FILES
    THEN [resp EXCEPT !.content_type = "text/plain"]
    ELSE resp

maybe_convert_mime_type_to_text(req, resp) ==
    convert_for_name(rsplit_next(req.uri.path, Ch.slash), resp)

\* maybe_list_dir with the error of metadata dropped and the path listed
list_dir_for_unchecked(lk, p) ==
    [err |-> "", is_dir |-> TRUE, ops |-> <<Call("stat", p)>>]

\* maybe_list_dir: the metadata of the path; its error, or whether the path
\* is a directory (and is then listed)
list_dir_for(lk, p) ==
    [err |-> lk.err, is_dir |-> found_dir(lk), ops |-> <<Call("stat", p)>>]

maybe_list_dir(p) == list_dir_for(os_lookup(p), p)

\* make_dir_list_body, ext.rs 212-219: the file name of a path, `..` for a
\* path that ends in it
name_or_dot_dot(name, p) ==
    IF name.some THEN name
    ELSE IF path_ends_with_dot_dot(p) THEN Some(DotDot)
    ELSE None

\* make_dir_list_body, ext.rs 219-241: the link of a path whose name and
\* root-relative path are UTF-8: `/` and the relative path percent-encoded;
\* no link for any other path
dir_list_link(full_url, name) ==
    IF name.some /\ utf8_valid(name.v) /\ utf8_valid(full_url.v)
    THEN <<[href |-> <<Ch.slash>> \o utf8_percent_encode(full_url.v),
            name |-> name.v]>>
    ELSE <<>>

\* make_dir_list_body, ext.rs 208-242: the links of the paths, in order; a
\* path that does not start with the root fails the listing
RECURSIVE dir_list_links(_, _)
dir_list_more(full_url, p, rest) ==
    IF ~full_url.some \/ ~rest.ok THEN [ok |-> FALSE, links |-> <<>>]
    ELSE [ok |-> TRUE,
          links |-> dir_list_link(full_url, name_or_dot_dot(file_name(p), p))
                        \o rest.links]

dir_list_links(root, paths) ==
    IF Len(paths) = 0 THEN [ok |-> TRUE, links |-> <<>>]
    ELSE dir_list_more(strip_prefix(paths[1], root), paths[1],
                       dir_list_links(root, Tail(paths)))

\* make_dir_list_body and list_dir, ext.rs 196-198: the page of the links
make_dir_list_body(body) ==
    IF ~body.ok THEN Err(StripPrefixInDirList)
    ELSE html_str_to_response(render_html(0, <<>>, body.links), 200)

\* list_dir, ext.rs 184 and 193-198: the paths gathered, sorted, after the
\* parent `..`
list_dir_response(root, p, gathered) ==
    make_dir_list_body(
        dir_list_links(root, <<push(p, DotDot)>> \o sort(gathered)))

\* ext::serve, ext.rs 38: the extension of the path, "" when it has none
file_ext_of(ext) == IF ext.some /\ utf8_valid(ext.v) THEN ext.v ELSE <<>>

\* what ext::serve returns: a result and the calls made, or list: list_dir
\* runs next, on path
ExtDone(r, ops) == [r |-> r, ops |-> ops, list |-> FALSE, path |-> <<>>]

ExtOf(done) == ExtDone(done.r, done.ops)

\* ext::serve, ext.rs 54-60: the path listed when it is a directory, the
\* error of its metadata, or the error given
ext_list(mld, resp, p) ==
    IF mld.err # "" THEN ExtDone(Err(IoError(mld.err)), mld.ops)
    ELSE IF mld.is_dir
         THEN [r |-> resp, ops |-> mld.ops \o <<Call("read_dir", p)>>,
               list |-> TRUE, path |-> p]
    ELSE ExtDone(resp, mld.ops)

\* ext::serve with the markdown rule after the MIME override
ext_rules_mime_first(file_ext, p, req, resp) ==
    IF resp.ok
    THEN ExtDone(Ok(maybe_convert_mime_type_to_text(req, resp.resp)), <<>>)
    ELSE IF file_ext = <<Ch.m, Ch.d>> THEN ExtOf(md_path_to_html(p))
    ELSE IF resp.err.kind = "Io" /\ resp.err.io = "NotFound"
         THEN ext_list(maybe_list_dir(p), resp, p)
    ELSE ExtDone(resp, <<>>)

\* ext::serve, ext.rs 40-66: the markdown page for a path with extension
\* md; else the MIME override for a response, the listing for a file not
\* found, and any other error as it is
ext_rules(file_ext, p, req, resp) ==
    IF file_ext = <<Ch.m, Ch.d>> THEN ExtOf(md_path_to_html(p))
    ELSE IF resp.ok
         THEN ExtDone(Ok(maybe_convert_mime_type_to_text(req, resp.resp)), <<>>)
    ELSE IF resp.err.kind = "Io" /\ resp.err.io = "NotFound"
         THEN ext_list(maybe_list_dir(p), resp, p)
    ELSE ExtDone(resp, <<>>)

\* ext::serve, ext.rs 37-66: the path resolved, its error returned
ext_resolved(lp, req, resp) ==
    IF ~lp.ok THEN ExtDone(Err(lp.err), <<>>)
    ELSE ext_rules(file_ext_of(extension(lp.path)), lp.path, req, resp)

\* the calls of ext::serve with extensions on: local_path_for_request, then
\* those of the rule
ext_with_resolve(ext, req) ==
    [ext EXCEPT !.ops = <<Call("local_path_for_request", req.uri.path)>> \o @]

\* ext::serve without the test of use_extensions
ext_serve_always(use_ext, req, resp, root) ==
    ext_with_resolve(
        ext_resolved(local_path_for_request(req.uri, root), req, resp),
        req)

\* ext::serve: the response as given when extensions are off
ext_serve(use_ext, req, resp, root) ==
    IF ~use_ext THEN ExtDone(resp, <<>>)
    ELSE ext_with_resolve(
             ext_resolved(local_path_for_request(req.uri, root), req, resp),
             req)

----------------------------------------------------------------------------
(* the requests the model serves *)

\* the most segments a request path is made of
MaxSegs == 2

\* the most times the directory reader is polled after it reported the end
MaxEndPolls == 2

\* the segments request paths are made of: empty, `.`, `..`, the names of
\* the filesystem, a name it does not have, and percent-encoded bytes
\* (%2Fs: `/s`, %2E%2E: `..`, %FF: a byte that is not UTF-8)
Segs ==
    {<<>>, Dot, DotDot,
     Nm.w, Nm.m, Nm.d, Nm.x, Nm.s, <<Ch.z>>,
     Nm.m_md, Nm.d_md, Nm.x_md,
     Nm.sh, Nm.x_sh, Nm.d_sh,
     <<Ch.pct, Ch.two, Ch.F, Ch.s>>,
     <<Ch.pct, Ch.two, Ch.E, Ch.pct, Ch.two, Ch.E>>,
     <<Ch.pct, Ch.F, Ch.F>>}

\* origin-form paths: `/` and the segments with `/` between them; and the
\* paths of the request targets that have no `/`: empty (authority-form),
\* `*` (asterisk-form)
UriPaths ==
    {<<Ch.slash>> \o join(segs, Ch.slash) :
        segs \in UNION {[1..k -> Segs] : k \in 1..MaxSegs}}
        \cup {<<>>, <<Ch.star>>}

Queries == {None, Some(<<Ch.q>>)}

Methods == {"GET", "HEAD", "POST"}

Requests ==
    [method : Methods, uri : [path : UriPaths, query : Queries]]

----------------------------------------------------------------------------
(* the handling of one request: serve, main.rs 127-133, and what it calls *)

VARIABLES
    req,             \* the request
    use_extensions,  \* Config.use_extensions
    pc,              \* where the handling of the request is
    primary,         \* serve_or_error's resp: what serve_file returned
    outcome,         \* what serve_or_error returned
    response,        \* what serve returned
    calls,           \* the calls made so far, each with the stage making it
    listing,         \* list_dir: its path, the entries the reader has not
                     \* yielded, the paths gathered, the polls after the end
    link             \* a link of a listing followed: the entry's path under
                     \* the root, its href, and the path a request for the
                     \* href decodes to

vars ==
    <<req, use_extensions, pc, primary, outcome, response, calls, listing, link>>

NoListing == [path |-> <<>>, left |-> {}, paths |-> {}, end_polls |-> 0]

NoLink == [step |-> "none", rel |-> <<>>, href |-> <<>>, back |-> <<>>]

\* ops, each marked with the stage that made it
Staged(ops, stage) ==
    [k \in 1..Len(ops) |->
        [call |-> ops[k].call, path |-> ops[k].path, stage |-> stage]]

Init ==
    /\ req \in Requests
    /\ use_extensions \in BOOLEAN
    /\ pc = "serve_or_error"
    /\ primary = Err(NoError)
    /\ outcome = Err(NoError)
    /\ response = NoResponse
    /\ calls = <<>>
    /\ listing = NoListing
    /\ link = NoLink

\* serve_or_error, main.rs 143-145: a request that is not supported is
\* answered at once
HandleUnsupportedRequest ==
    /\ pc = "serve_or_error"
    /\ \E unsup \in {handle_unsupported_request(req)} :
           IF unsup.some
           THEN outcome' = unsup.r /\ pc' = "transform_error"
           ELSE outcome' = outcome /\ pc' = "try_dir_redirect"
    /\ UNCHANGED <<req, use_extensions, primary, response, calls, listing, link>>

\* serve_file, main.rs 162-166: the redirect, or its error, is what
\* serve_file returns
TryDirRedirect ==
    /\ pc = "try_dir_redirect"
    /\ \E redir \in {try_dir_redirect(req, root_dir)} :
           /\ calls' = calls \o Staged(redir.ops, "serve_file")
           /\ IF redir.some \/ ~redir.r.ok
              THEN primary' = redir.r /\ pc' = "ext_serve"
              ELSE primary' = primary /\ pc' = "respond_with_file"
    /\ UNCHANGED <<req, use_extensions, outcome, response, listing, link>>

\* serve_file, main.rs 168-170: the file of the path, index.html for a
\* directory
RespondWithFile ==
    /\ pc = "respond_with_file"
    /\ \E lp \in {local_path_with_maybe_index(req.uri, root_dir)} :
           IF lp.r.ok
           THEN \E file \in {respond_with_file(lp.r.path)} :
                    /\ primary' = file.r
                    /\ calls' = calls \o Staged(lp.ops \o file.ops, "serve_file")
           ELSE /\ primary' = Err(lp.r.err)
                /\ calls' = calls \o Staged(lp.ops, "serve_file")
    /\ pc' = "ext_serve"
    /\ UNCHANGED <<req, use_extensions, outcome, response, listing, link>>

\* ext::serve, ext.rs 26-67, up to list_dir
ExtServe ==
    /\ pc = "ext_serve"
    /\ \E ext \in {ext_serve(use_extensions, req, primary, root_dir)} :
           /\ calls' = calls \o Staged(ext.ops, "ext_serve")
           /\ IF ext.list
              THEN /\ listing' = [path |-> ext.path,
                                  left |-> dir_names(os_lookup(ext.path).loc),
                                  paths |-> {}, end_polls |-> 0]
                   /\ pc' = "list_dir"
                   /\ outcome' = outcome
              ELSE /\ outcome' = ext.r
                   /\ pc' = "transform_error"
                   /\ listing' = listing
    /\ UNCHANGED <<req, use_extensions, primary, response, link>>

\* list_dir, ext.rs 188-192: next_entry yields an entry, in the order the
\* filesystem keeps them, and its path is gathered
ListDirNextEntry ==
    /\ pc = "list_dir"
    /\ \E name \in listing.left :
           listing' = [listing EXCEPT
                          !.left = @ \ {name},
                          !.paths = @ \cup {push(listing.path, name)}]
    /\ calls' = calls \o Staged(<<Call("next_entry", listing.path)>>, "ext_serve")
    /\ UNCHANGED <<req, use_extensions, pc, primary, outcome, response, link>>

\* list_dir, ext.rs 188-192: next_entry reports the end of the directory,
\* Ok(None), which `while let Ok(e)` matches: the loop goes round, and the
\* program is where it was before the poll. end_polls counts the polls
\* after the end up to MaxEndPolls and then starts again at 1; the log of
\* calls keeps the first of them.
ListDirEndOfDirectory ==
    /\ pc = "list_dir"
    /\ listing.left = {}
    /\ listing' = [listing EXCEPT
                      !.end_polls = IF @ < MaxEndPolls THEN @ + 1 ELSE 1]
    /\ calls' = IF listing.end_polls = 0
                THEN calls \o Staged(<<Call("next_entry", listing.path)>>, "ext_serve")
                ELSE calls
    /\ UNCHANGED <<req, use_extensions, pc, primary, outcome, response, link>>

\* list_dir, ext.rs 188-198: next_entry fails, the only way out of the
\* loop; the listing is made of the paths gathered so far
ListDirReaderError ==
    /\ pc = "list_dir"
    /\ outcome' = list_dir_response(root_dir, listing.path, listing.paths)
    /\ calls' = calls \o Staged(<<Call("next_entry", listing.path)>>, "ext_serve")
    /\ pc' = "transform_error"
    /\ UNCHANGED <<req, use_extensions, primary, response, listing, link>>

\* serve, main.rs 132
TransformError ==
    /\ pc = "transform_error"
    /\ response' = transform_error(outcome)
    /\ pc' = "send"
    /\ UNCHANGED <<req, use_extensions, primary, outcome, calls, listing, link>>

\* the connection sends the response; the stream of a file is read now
SendResponse ==
    /\ pc = "send"
    /\ calls' = IF response.body.kind = "stream"
                THEN calls \o Staged(<<Call("read", response.body.file)>>, "send")
                ELSE calls
    /\ pc' = "done"
    /\ UNCHANGED <<req, use_extensions, primary, outcome, response, listing, link>>

Next ==
    \/ HandleUnsupportedRequest
    \/ TryDirRedirect
    \/ RespondWithFile
    \/ ExtServe
    \/ ListDirNextEntry
    \/ ListDirEndOfDirectory
    \/ ListDirReaderError
    \/ TransformError
    \/ SendResponse

Spec == Init /\ [][Next]_vars

\* the runtime keeps polling the task of a connection, so each step the
\* handler can take is taken; stated for the steps from list_dir on, the
\* ones a handler that has entered list_dir still has to take. Nothing
\* makes the directory reader fail: ListDirReaderError has no fairness.
Fairness ==
    /\ WF_vars(ListDirNextEntry)
    /\ WF_vars(ListDirEndOfDirectory)
    /\ WF_vars(TransformError)
    /\ WF_vars(SendResponse)

LiveSpec == Spec /\ Fairness

----------------------------------------------------------------------------
(* a link of a directory listing, followed: make_dir_list_body encodes the *)
(* entry's path under the root into the href, and local_path_for_request   *)
(* decodes the path of the request the href makes                          *)

\* the most bytes of an entry's path under the root
MaxNameLen == 3

\* the bytes entries' paths are made of: `%`, hex digits, a letter, bytes
\* of the encoding set (space, `?`), `/`, and the two bytes of one
\* non-ASCII character
NameBytes ==
    {Ch.pct, Ch.two, Ch.five, Ch.x, Ch.space, Ch.qmark, Ch.slash, Ch.xC3, Ch.xA9}

\* the UTF-8 paths of entries under the root
RelPaths ==
    {rel \in UNION {[1..k -> NameBytes] : k \in 1..MaxNameLen} : utf8_valid(rel)}

LinkInit ==
    /\ link \in [step : {"entry"}, rel : RelPaths, href : {<<>>}, back : {<<>>}]
    /\ req = [method |-> "GET", uri |-> [path |-> <<Ch.slash>>, query |-> None]]
    /\ use_extensions = TRUE
    /\ pc = "idle"
    /\ primary = Err(NoError)
    /\ outcome = Err(NoError)
    /\ response = NoResponse
    /\ calls = <<>>
    /\ listing = NoListing

\* make_dir_list_body, ext.rs 228-231: the href of the entry
EncodeLink ==
    /\ link.step = "entry"
    /\ link' = [link EXCEPT !.step = "linked",
                            !.href = <<Ch.slash>> \o utf8_percent_encode(link.rel)]
    /\ UNCHANGED <<req, use_extensions, pc, primary, outcome, response, calls, listing>>

\* local_path_for_request, main.rs 280-292: the path of the request for the
\* href, up to `?`, decoded, after its `/`
DecodeLink ==
    /\ link.step = "linked"
    /\ link' = [link EXCEPT
                   !.step = "decoded",
                   !.back = Tail(percent_decode_str(
                                trim_query(link.href, find(link.href, Ch.qmark))))]
    /\ UNCHANGED <<req, use_extensions, pc, primary, outcome, response, calls, listing>>

LinkNext == EncodeLink \/ DecodeLink

LinkSpec == LinkInit /\ [][LinkNext]_vars

----------------------------------------------------------------------------
(* what the properties speak of *)

Get == req.method = "GET"

Responded == pc \in {"send", "done"}

\* the path the request resolves to
Resolved == local_path_for_request(req.uri, root_dir)

\* local_path_for_request has run for the request
HasResolved == \E k \in 1..Len(calls) : calls[k].call = "local_path_for_request"

\* the filesystem calls made so far
FsCalls == SelectSeq(calls, LAMBDA c : c.call # "local_path_for_request")

\* the calls that read the content of a file
ReadCalls == SelectSeq(calls, LAMBDA c : c.call = "read")

\* the location a path names, `..` taken against the names before it
RECURSIVE named_location(_, _)
named_location(parts, at) ==
    IF Len(parts) = 0 THEN at
    ELSE IF parts[1] = DotDot
         THEN named_location(Tail(parts), SubSeq(at, 1, Len(at) - 1))
    ELSE named_location(Tail(parts), Append(at, parts[1]))

\* the path names the root directory or a location beneath it
UnderRoot(p) ==
    /\ starts_with(p, Ch.slash)
    /\ Len(named_location(components(p).parts, <<>>)) >= 1
    /\ named_location(components(p).parts, <<>>)[1] = Nm.w

\* C1: whenever local_path_for_request succeeds on the request's URI, the
\* path it returns names a location under the root directory.
C1_ResolvedPathUnderRoot ==
    (Get /\ HasResolved /\ Resolved.ok) => UnderRoot(Resolved.path)

\* the request path does not end in `/` and resolves to a directory
DirWithoutSlash ==
    /\ Get
    /\ ~ends_with(req.uri.path, Ch.slash)
    /\ Resolved.ok
    /\ is_dir(Resolved.path)

\* C2: a GET whose path does not end in `/` and resolves to an existing
\* directory is answered 302 with Location the path, `/`, and `?` and the
\* query when there is one, and no file content is read for it; a response
\* is given.
C2_DirectoryRedirect ==
    /\ (DirWithoutSlash /\ Responded) =>
           /\ response.status = 302
           /\ response.location = new_loc(req.uri)
    /\ DirWithoutSlash => (Len(ReadCalls) = 0 /\ pc # "list_dir")

\* the request path ends in `/` and resolves to a directory that has a
\* file index.html
DirWithIndex ==
    /\ Get
    /\ ends_with(req.uri.path, Ch.slash)
    /\ Resolved.ok
    /\ is_dir(Resolved.path)
    /\ Append(os_lookup(Resolved.path).loc, Nm.index_html) \in FsFileLocs

\* C3: a GET whose path ends in `/` and resolves to a directory containing
\* index.html is answered 200 with the content of that index.html, and
\* never with a listing.
C3_IndexHtmlServed ==
    /\ (DirWithIndex /\ Responded) =>
           /\ response.status = 200
           /\ response.body.kind = "stream"
           /\ os_lookup(response.body.file).loc
                  = Append(os_lookup(Resolved.path).loc, Nm.index_html)
    /\ DirWithIndex => pc # "list_dir"

\* the request resolves to a path that does not exist: the lookup fails
\* with NotFound
MissingFile ==
    /\ Get
    /\ use_extensions
    /\ Resolved.ok
    /\ os_lookup(Resolved.path).err = "NotFound"

\* the names of a path, the last left out: the path of its parent
ParentLookup(p) ==
    lookup_names(SelectSeq(split(p, Ch.slash), LAMBDA g : Len(g) > 0),
                 Len(SelectSeq(split(p, Ch.slash), LAMBDA g : Len(g) > 0)) - 1)

\* the parent directory of the missing file exists
ParentExists == found_dir(ParentLookup(Resolved.path))

\* the names the links of a listing show
LinkNames(r) == {r.body.links[k].name : k \in 1..Len(r.body.links)}

\* C4, as claimed: with extensions enabled, a GET whose path resolves to a
\* missing file is answered 200 with a page listing the entries of the
\* missing file's parent directory when that directory exists, and 404
\* otherwise.
C4_MissingFileListsParent ==
    (MissingFile /\ Responded) =>
        IF ParentExists
        THEN /\ response.status = 200
             /\ response.body.kind = "html"
             /\ LinkNames(response)
                    = {DotDot} \cup dir_names(ParentLookup(Resolved.path).loc)
        ELSE response.status = 404

\* C4, amended: with extensions enabled, a GET whose path resolves to a
\* missing file is answered 404, whether or not the missing file's parent
\* directory exists; the parent directory is neither read nor listed.
C4_MissingFileNotFound ==
    /\ (MissingFile /\ Responded) =>
           /\ response.status = 404
           /\ response.body.kind = "html"
           /\ response.body.links = <<>>
    /\ MissingFile =>
           /\ pc # "list_dir"
           /\ \A k \in 1..Len(calls) : calls[k].call \notin {"read_dir", "next_entry"}

\* C4's case: a missing file in an existing directory has been answered
C4_Witness ==
    MissingFile /\ ParentExists /\ pc = "done" /\ response.status = 404

\* the resolved path has extension md and names a file whose bytes are UTF-8
MarkdownFile ==
    /\ Get
    /\ use_extensions
    /\ Resolved.ok
    /\ extension(Resolved.path) = Some(<<Ch.m, Ch.d>>)
    /\ os_lookup(Resolved.path).err = ""
    /\ os_lookup(Resolved.path).loc \in FsFileLocs
    /\ utf8_valid(file_bytes(os_lookup(Resolved.path).loc))

\* C5: with extensions enabled, a GET whose resolved path has extension md
\* and names a UTF-8 file is answered 200 with Content-Type text/html, the
\* page of that file's markdown, whatever serve_file produced; the MIME
\* override (md is in TEXT_EXTENSIONS) and the listing never replace it.
C5_MarkdownRendered ==
    /\ (MarkdownFile /\ Responded) =>
           /\ response.status = 200
           /\ response.content_type = "text/html"
           /\ response.body.kind = "html"
           /\ response.body.md = file_bytes(os_lookup(Resolved.path).loc)
    /\ MarkdownFile => pc # "list_dir"

\* C5's case: a markdown file that serve_file answered as text/markdown has
\* been answered as a page
C5_Witness ==
    /\ MarkdownFile
    /\ pc = "done"
    /\ primary.ok
    /\ primary.resp.content_type = "text/markdown"
    /\ response.content_type = "text/html"

\* C6: serve answers every outcome of serve_or_error with a response: a
\* success with that response unchanged, an I/O error of kind NotFound with
\* 404, every other failure with 500, each the page of its status.
C6_ErrorsBecomeResponses ==
    Responded =>
        IF outcome.ok THEN response = outcome.resp
        ELSE /\ response.status
                    = (IF outcome.err.kind = "Io" /\ outcome.err.io = "NotFound"
                       THEN 404
                       ELSE 500)
             /\ response.body.kind = "html"
             /\ response.body.title = response.status
             /\ response.content_type = "text/html"

\* C6's case: an I/O error of another kind than NotFound has been answered
\* with 500
C6_Witness ==
    /\ pc = "done"
    /\ ~outcome.ok
    /\ outcome.err.kind = "Io"
    /\ outcome.err.io # "NotFound"
    /\ response.status = 500

\* C7: a request whose method is not GET is answered 405 with Allow: GET,
\* and nothing else is done for it: no path is resolved, no redirect is
\* decided, the filesystem is not touched, extensions do not run; a GET is
\* never answered 405.
C7_OnlyGetIsServed ==
    /\ ~Get =>
           /\ pc \in {"serve_or_error", "transform_error", "send", "done"}
           /\ calls = <<>>
           /\ primary = Err(NoError)
           /\ pc # "serve_or_error" =>
                  (outcome.ok /\ outcome.resp.status = 405)
           /\ Responded => (response.status = 405 /\ response.allow = "GET")
    /\ (Get /\ Responded) => (response.status # 405 /\ response.allow = "")

\* C7's case: a POST has been answered 405 without a call made
C7_Witness ==
    /\ req.method = "POST"
    /\ pc = "done"
    /\ response.status = 405
    /\ response.allow = "GET"
    /\ calls = <<>>

\* ext::serve has returned
ExtServed == Get /\ pc \in {"transform_error", "send", "done"}

\* C8: with extensions off, ext::serve returns the very outcome serve_file
\* gave it, response or error, and makes no call: it neither resolves the
\* path nor touches the filesystem, and lists no directory.
C8_ExtensionsOffPassThrough ==
    (Get /\ ~use_extensions) =>
        /\ ExtServed => outcome = primary
        /\ \A k \in 1..Len(calls) : calls[k].stage # "ext_serve"
        /\ pc # "list_dir"

\* C8's case: with extensions off a markdown file has gone through
\* ext::serve as the file serve_file answered with
C8_Witness ==
    /\ Get
    /\ ~use_extensions
    /\ pc = "done"
    /\ outcome.ok
    /\ outcome.resp.content_type = "text/markdown"
    /\ response.body.kind = "stream"

\* C9: the path of a directory entry under the root, when it is UTF-8,
\* comes back exactly when it is percent-encoded into the link's href and
\* the href is percent-decoded as a request path.
C9_LinkRoundTrip ==
    link.step = "decoded" => link.back = link.rel

\* the request path does not decode to UTF-8, or decodes to a path that
\* does not start with `/`
BadPath ==
    /\ Get
    /\ \/ ~utf8_valid(percent_decode_str(req.uri.path))
       \/ ~starts_with(percent_decode_str(req.uri.path), Ch.slash)

\* C10: a GET whose path does not decode to UTF-8, or decodes to a path
\* that does not start with `/`, fails with UriNotUtf8 or UriNotAbsolute
\* and is answered 500, and no filesystem call is ever made for it.
C10_BadPathFailsBeforeFilesystem ==
    BadPath =>
        /\ Len(FsCalls) = 0
        /\ pc # "list_dir"
        /\ pc \in {"ext_serve", "transform_error", "send", "done"} =>
               (~primary.ok /\ primary.err \in {UriNotUtf8, UriNotAbsolute})
        /\ pc \in {"transform_error", "send", "done"} =>
               /\ ~outcome.ok
               /\ outcome.err
                      = (IF utf8_valid(percent_decode_str(req.uri.path))
                         THEN UriNotAbsolute
                         ELSE UriNotUtf8)
        /\ Responded => response.status = 500

\* C10's case: a path ending in `/` that does not decode to UTF-8 has been
\* answered 500 with extensions on and no filesystem call made
C10_Witness ==
    /\ BadPath
    /\ ends_with(req.uri.path, Ch.slash)
    /\ use_extensions
    /\ pc = "done"
    /\ outcome.err = UriNotUtf8
    /\ response.status = 500
    /\ Len(FsCalls) = 0

----------------------------------------------------------------------------

\* a GET, with extensions on, whose path resolves to a directory that has
\* no index.html
DirWithoutIndex ==
    /\ Get
    /\ use_extensions
    /\ Resolved.ok
    /\ is_dir(Resolved.path)
    /\ os_lookup(push(Resolved.path, Nm.index_html)).err = "NotFound"

\* C11: with extensions on, every GET for an existing directory without
\* index.html is eventually answered: the loop of list_dir, once entered,
\* ends after the reader has reported the end of the directory, and the
\* response follows.
C11_ListedDirectoryAnswered ==
    (DirWithoutIndex /\ pc = "list_dir") ~> Responded

----------------------------------------------------------------------------

\* ext::serve has returned, with extensions on, for a GET whose resolved
\* path has an extension other than md, and not by way of list_dir
NotMarkdownServed ==
    /\ Get
    /\ use_extensions
    /\ Resolved.ok
    /\ file_ext_of(extension(Resolved.path)) # <<Ch.m, Ch.d>>
    /\ pc \in {"transform_error", "send", "done"}
    /\ listing = NoListing

\* the primary outcome is the response of respond_with_file
PrimaryIsFile == primary.ok /\ primary.resp.status = 200

\* the last segment of the resolved path has an extension of
\* TEXT_EXTENSIONS or is a name of TEXT_FILES
TextPath(p) ==
    \/ extension(p).some /\ extension(p).v \in TEXT_EXTENSIONS
    \/ file_name(p).some /\ file_name(p).v \in TEXT_FILES

\* C12: with extensions on and a resolved path whose extension is not md,
\* Content-Type becomes text/plain exactly when the primary outcome is the
\* response of a file and the last segment of the resolved path has a
\* listed extension or a listed name; status, body and the other headers
\* stay, and redirects and failures are returned as they came.
C12_TextMimeOverride ==
    NotMarkdownServed =>
        IF PrimaryIsFile /\ TextPath(Resolved.path)
        THEN outcome = Ok([primary.resp EXCEPT !.content_type = "text/plain"])
        ELSE outcome = primary

----------------------------------------------------------------------------

\* list_dir has returned for a directory under the root
ListingProduced ==
    /\ pc \in {"transform_error", "send", "done"}
    /\ listing # NoListing
    /\ UnderRoot(listing.path)

\* the names of the children of the listed directory that are UTF-8
Utf8Children ==
    {n \in dir_names(os_lookup(listing.path).loc) : utf8_valid(n)}

\* names in ascending order of their bytes
RECURSIVE in_order(_)
in_order(names) ==
    IF names = {} THEN <<>>
    ELSE LET least == CHOOSE a \in names :
                          \A b \in names \ {a} : bytes_lt(a, b)
         IN <<least>> \o in_order(names \ {least})

\* the names of the links of a page, in the order of the page
LinkNameSeq(r) == [k \in 1..Len(r.body.links) |-> r.body.links[k].name]

\* C13: the page listing a directory under the root has the link of the
\* parent `..` first and then one link for every child of the directory
\* whose name is UTF-8, in ascending order; a child whose name is not UTF-8
\* is left out without failing the listing, and no other child is.
C13_ListingComplete ==
    ListingProduced =>
        /\ outcome.ok
        /\ outcome.resp.status = 200
        /\ LinkNameSeq(outcome.resp) = <<DotDot>> \o in_order(Utf8Children)

====
